---- MODULE Spec2Model ----
(***************************************************************************)
(* Model of game_agent.py: the evaluators custom_score*, the searches      *)
(* CustomPlayer.minimax / CustomPlayer.alphabeta and the driver            *)
(* CustomPlayer.get_move, run against an Isolation board.                  *)
(*                                                                         *)
(* Scores are Python floats.  They are kept here as exact fractions        *)
(* <<numerator, denominator>> with denominator > 0; float("inf") and       *)
(* float("-inf") are <<1, 0>> and <<-1, 0>>.                               *)
(***************************************************************************)
EXTENDS Integers, Sequences, FiniteSets, TLC

\* ------------------------------------------------------------------------
\* Bounds of the model
\* ------------------------------------------------------------------------

\* plies the harness plays before the agent is asked for a move
MaxPlies == 1

\* the clock handed to get_move reads at most TIMER_THRESHOLD + MaxTicks
MaxTicks == 9

\* search_depth of the agent ranges over 1..MaxDepth; the pure searches are
\* run at depths 0..MaxDepth
MaxDepth == 2

\* ------------------------------------------------------------------------
\* isolation.Board: the collaborator of the agent
\* ------------------------------------------------------------------------

\* The board of the model is 3 cells wide and 2 high; a player steps to a
\* neighbouring cell.  is_loser / is_winner hold for the player to move /
\* the player not to move exactly when the player to move has no legal move.
width == 3

height == 2

Cells == (0 .. height - 1) \X (0 .. width - 1)

Players == {1, 2}

NO_MOVE == <<-1, -1>>

\* enumeration order of the steps a player can take
Directions ==
  << <<-1, -1>>, <<-1, 0>>, <<-1, 1>>, <<0, -1>>,
     <<0, 1>>, <<1, -1>>, <<1, 0>>, <<1, 1>> >>

get_opponent(player) == 3 - player

get_player_location(game, player) == game.loc[player]

\* moves of `player`: the neighbouring cells that are on the board, never
\* visited and not occupied, in enumeration order
get_legal_moves(game, player) ==
  LET at == game.loc[player]
      cand == [i \in 1 .. Len(Directions) |->
                 <<at[1] + Directions[i][1], at[2] + Directions[i][2]>>]
  IN SelectSeq(cand, LAMBDA m : /\ m \in Cells
                                /\ m \notin game.blocked
                                /\ m # game.loc[1]
                                /\ m # game.loc[2])

\* get_legal_moves() without a player: the moves of the player to move
active_moves(game) == get_legal_moves(game, game.active)

\* the successor state: the active player goes to `move`, the cell it leaves
\* stays used, and the turn passes to the opponent
forecast_move(game, move) ==
  [blocked |-> game.blocked \cup {game.loc[game.active]},
   loc     |-> [game.loc EXCEPT ![game.active] = move],
   active  |-> get_opponent(game.active)]

is_loser(game, player) ==
  player = game.active /\ Len(active_moves(game)) = 0

is_winner(game, player) ==
  player = get_opponent(game.active) /\ Len(active_moves(game)) = 0

\* ------------------------------------------------------------------------
\* float values
\* ------------------------------------------------------------------------

infinity == <<1, 0>>

neg_infinity == <<-1, 0>>

IsInf(v) == v[2] = 0

IsFinite(v) == v[2] > 0

\* Python's a < b on floats
Less(a, b) ==
  IF IsInf(a) \/ IsInf(b)
  THEN \/ a = neg_infinity /\ b # neg_infinity
       \/ b = infinity /\ a # infinity
  ELSE a[1] * b[2] < b[1] * a[2]

\* Python's a == b on floats
SameValue(a, b) == ~Less(a, b) /\ ~Less(b, a)

float_max(a, b) == IF Less(a, b) THEN b ELSE a

float_min(a, b) == IF Less(b, a) THEN b ELSE a

RECURSIVE SumTo(_, _)
\* counts[1] + ... + counts[n]
SumTo(counts, n) == IF n = 0 THEN 0 ELSE SumTo(counts, n - 1) + counts[n]

\* ------------------------------------------------------------------------
\* Evaluators
\* ------------------------------------------------------------------------

custom_score_basic(game, player) ==
  IF is_loser(game, player) THEN neg_infinity
  ELSE IF is_winner(game, player) THEN infinity
  ELSE <<Len(get_legal_moves(game, player)), 1>>

\* 0.4 * own_moves + 0.6 * (-opp_moves)
custom_score_improved(game, player) ==
  IF is_loser(game, player) THEN neg_infinity
  ELSE IF is_winner(game, player) THEN infinity
  ELSE LET own_moves == Len(get_legal_moves(game, player))
           opp_moves == Len(get_legal_moves(game, get_opponent(player)))
       IN <<2 * own_moves - 3 * opp_moves, 5>>

custom_score_opponent_moves(game, player) ==
  IF is_loser(game, player) THEN neg_infinity
  ELSE IF is_winner(game, player) THEN infinity
  ELSE LET own_moves == 0
           opp_moves == Len(get_legal_moves(game, get_opponent(player)))
       IN <<own_moves - opp_moves, 1>>

custom_score_own_moves(game, player) ==
  IF is_loser(game, player) THEN neg_infinity
  ELSE IF is_winner(game, player) THEN infinity
  ELSE <<Len(get_legal_moves(game, player)), 1>>

\* 0.8 * own/8 - 0.2 * distance/(cx^2 + cy^2) with the centre at
\* (width/2, height/2): numerators and denominators are multiplied by 4
custom_score_center_deviation(game, player) ==
  IF is_loser(game, player) THEN neg_infinity
  ELSE IF is_winner(game, player) THEN infinity
  ELSE LET current_location == get_player_location(game, player)
           dx == 2 * current_location[1] - width
           dy == 2 * current_location[2] - height
           distance_to_center == dx * dx + dy * dy
           norm == width * width + height * height
           nrof_own_moves == Len(get_legal_moves(game, player))
       IN <<nrof_own_moves * norm - 2 * distance_to_center, 10 * norm>>

custom_score_lookahead_opponent(game, player) ==
  IF is_loser(game, player) THEN neg_infinity
  ELSE IF is_winner(game, player) THEN infinity
  ELSE LET own_moves == get_legal_moves(game, player)
           n == Len(own_moves)
           opp == [i \in 1 .. n |->
                     Len(get_legal_moves(forecast_move(game, own_moves[i]),
                                         get_opponent(player)))]
           opp_moves == SumTo(opp, n)
       IN IF n = 0 THEN neg_infinity
          ELSE <<n * n - opp_moves, n>>

custom_score_lookahead_own(game, player) ==
  IF is_loser(game, player) THEN neg_infinity
  ELSE IF is_winner(game, player) THEN infinity
  ELSE LET own_moves == get_legal_moves(game, player)
           n == Len(own_moves)
           own == [i \in 1 .. n |->
                     Len(get_legal_moves(forecast_move(game, own_moves[i]),
                                         player))]
           lookahead_moves == SumTo(own, n)
       IN IF n = 0 THEN neg_infinity
          ELSE IF lookahead_moves = 0 THEN neg_infinity
          ELSE <<2 * n * n + 3 * lookahead_moves, 5 * n>>

custom_score_lookahead_both(game, player) ==
  IF is_loser(game, player) THEN neg_infinity
  ELSE IF is_winner(game, player) THEN infinity
  ELSE LET own_moves == get_legal_moves(game, player)
           n == Len(own_moves)
           opp_moves == Len(get_legal_moves(game, get_opponent(player)))
           own == [i \in 1 .. n |->
                     Len(get_legal_moves(forecast_move(game, own_moves[i]),
                                         player))]
           opp == [i \in 1 .. n |->
                     Len(get_legal_moves(forecast_move(game, own_moves[i]),
                                         get_opponent(player)))]
           lookahead_moves == SumTo(own, n)
           opp_moves_next_level == SumTo(opp, n)
       IN IF n = 0 THEN neg_infinity
          ELSE <<n * (n - opp_moves) + lookahead_moves - opp_moves_next_level,
                 2 * n>>

custom_score(game, player) == custom_score_lookahead_both(game, player)

ScoreFns ==
  {"custom_score", "custom_score_basic", "custom_score_improved",
   "custom_score_opponent_moves", "custom_score_own_moves",
   "custom_score_center_deviation", "custom_score_lookahead_opponent",
   "custom_score_lookahead_own", "custom_score_lookahead_both"}

\* self.score(game, player) for the evaluator the agent was built with
score(fn, game, player) ==
  CASE fn = "custom_score" -> custom_score(game, player)
    [] fn = "custom_score_basic" -> custom_score_basic(game, player)
    [] fn = "custom_score_improved" -> custom_score_improved(game, player)
    [] fn = "custom_score_opponent_moves" ->
         custom_score_opponent_moves(game, player)
    [] fn = "custom_score_own_moves" -> custom_score_own_moves(game, player)
    [] fn = "custom_score_center_deviation" ->
         custom_score_center_deviation(game, player)
    [] fn = "custom_score_lookahead_opponent" ->
         custom_score_lookahead_opponent(game, player)
    [] fn = "custom_score_lookahead_own" ->
         custom_score_lookahead_own(game, player)
    [] fn = "custom_score_lookahead_both" ->
         custom_score_lookahead_both(game, player)

\* ------------------------------------------------------------------------
\* Outcomes of a search
\* ------------------------------------------------------------------------
\* A search threads the clock and a log through its calls.  `time` is what
\* the next call of self.time_left() reads; every call takes one tick.  The
\* log holds, in order, <<"max_value" | "min_value", node>> for every helper
\* invocation, <<"time_left", node>> for every clock poll, <<"score", node>>
\* for every evaluator call and <<"forecast_move", node>> for every
\* successor built; a node is the sequence of moves leading to it from the
\* state the search was called on.  <<"return", node, score, move>> is logged
\* when the helper invoked on node returns that pair.

\* `return score, next_move` at `node`
Return(node, value, next_move, time, log) ==
  [raised |-> FALSE, score |-> value, move |-> next_move,
   time |-> time, log |-> Append(log, <<"return", node, value, next_move>>)]

\* `raise Timeout()`: no (score, move) pair comes back
Raise(time, log) == [raised |-> TRUE, time |-> time, log |-> log]

\* a helper at `node` calls game.get_legal_moves(): once in the test of the
\* base case when depth is not 0, once more at the head of its for loop
get_legal_moves_call(log, node) == Append(log, <<"get_legal_moves", node>>)

\* the clock after one call of time_left(): time has passed.  Readings
\* below zero are not told apart.
tick(time) == IF time > 0 THEN time - 1 ELSE 0

\* `self.time_left() < self.TIMER_THRESHOLD`
Expired(self, time) == time < self.TIMER_THRESHOLD

\* ------------------------------------------------------------------------
\* CustomPlayer.minimax
\* ------------------------------------------------------------------------

RECURSIVE mm_min_value(_, _, _, _, _, _, _)
RECURSIVE mm_max_value(_, _, _, _, _, _, _)
RECURSIVE mm_min_loop(_, _, _, _, _, _, _, _, _, _)
RECURSIVE mm_max_loop(_, _, _, _, _, _, _, _, _, _)

\* the for loop of min_value from its i-th move on
mm_min_loop(self, player, game, depth, node, i, value, next_move, time, log) ==
  LET moves == active_moves(game) IN
  IF i > Len(moves) THEN Return(node, value, next_move, time, log)
  ELSE LET move == moves[i]
           child == Append(node, move)
           r == mm_max_value(self, player, forecast_move(game, move),
                             depth - 1, child, time,
                             Append(log, <<"forecast_move", child>>))
       IN IF r.raised THEN r
          ELSE IF Less(r.score, value)
          THEN mm_min_loop(self, player, game, depth, node, i + 1,
                           r.score, move, r.time, r.log)
          ELSE mm_min_loop(self, player, game, depth, node, i + 1,
                           value, next_move, r.time, r.log)

\* mm_min_value scoring a leaf for the player to move at it
mm_min_value_mover(self, player, game, depth, node, time, log) ==
  LET polled == log \o << <<"min_value", node>>, <<"time_left", node>> >>
      listed == IF depth = 0 THEN polled ELSE get_legal_moves_call(polled, node)
  IN
  IF Expired(self, time) THEN Raise(tick(time), polled)
  ELSE IF depth = 0 \/ Len(active_moves(game)) = 0
  THEN Return(node, score(self.score, game, game.active), NO_MOVE,
              tick(time), Append(listed, <<"score", node>>))
  ELSE mm_min_loop(self, player, game, depth, node, 1, infinity, NO_MOVE,
                   tick(time), get_legal_moves_call(listed, node))

mm_min_value(self, player, game, depth, node, time, log) ==
  LET polled == log \o << <<"min_value", node>>, <<"time_left", node>> >>
      listed == IF depth = 0 THEN polled ELSE get_legal_moves_call(polled, node)
  IN
  IF Expired(self, time) THEN Raise(tick(time), polled)
  ELSE IF depth = 0 \/ Len(active_moves(game)) = 0
  THEN Return(node, score(self.score, game, player), NO_MOVE, tick(time),
              Append(listed, <<"score", node>>))
  ELSE mm_min_loop(self, player, game, depth, node, 1, infinity, NO_MOVE,
                   tick(time), get_legal_moves_call(listed, node))

\* the for loop of max_value from its i-th move on
mm_max_loop(self, player, game, depth, node, i, value, next_move, time, log) ==
  LET moves == active_moves(game) IN
  IF i > Len(moves) THEN Return(node, value, next_move, time, log)
  ELSE LET move == moves[i]
           child == Append(node, move)
           r == mm_min_value(self, player, forecast_move(game, move),
                             depth - 1, child, time,
                             Append(log, <<"forecast_move", child>>))
       IN IF r.raised THEN r
          ELSE IF Less(value, r.score)
          THEN mm_max_loop(self, player, game, depth, node, i + 1,
                           r.score, move, r.time, r.log)
          ELSE mm_max_loop(self, player, game, depth, node, i + 1,
                           value, next_move, r.time, r.log)

\* mm_max_value handing back its best so far when the clock has run out
mm_max_value_partial(self, player, game, depth, node, time, log) ==
  LET polled == log \o << <<"max_value", node>>, <<"time_left", node>> >>
      listed == IF depth = 0 THEN polled ELSE get_legal_moves_call(polled, node)
  IN
  IF Expired(self, time)
  THEN Return(node, neg_infinity, NO_MOVE, tick(time), polled)
  ELSE IF depth = 0 \/ Len(active_moves(game)) = 0
  THEN Return(node, score(self.score, game, player), NO_MOVE, tick(time),
              Append(listed, <<"score", node>>))
  ELSE mm_max_loop(self, player, game, depth, node, 1, neg_infinity, NO_MOVE,
                   tick(time), get_legal_moves_call(listed, node))

mm_max_value(self, player, game, depth, node, time, log) ==
  LET polled == log \o << <<"max_value", node>>, <<"time_left", node>> >>
      listed == IF depth = 0 THEN polled ELSE get_legal_moves_call(polled, node)
  IN
  IF Expired(self, time) THEN Raise(tick(time), polled)
  ELSE IF depth = 0 \/ Len(active_moves(game)) = 0
  THEN Return(node, score(self.score, game, player), NO_MOVE, tick(time),
              Append(listed, <<"score", node>>))
  ELSE mm_max_loop(self, player, game, depth, node, 1, neg_infinity, NO_MOVE,
                   tick(time), get_legal_moves_call(listed, node))

\* minimax without the clock check of its own body: the first poll is the
\* one of max_value
minimax_unpolled(self, game, depth, time) ==
  mm_max_value(self, game.active, game, depth, <<>>, time,
               << <<"minimax", <<>> >> >>)

\* minimax(game, depth) with maximizing_player=True, called when the clock
\* reads `time`
minimax(self, game, depth, time) ==
  LET player == game.active
      polled == << <<"minimax", <<>> >>, <<"time_left", <<>> >> >>
  IN IF Expired(self, time) THEN Raise(tick(time), polled)
     ELSE mm_max_value(self, player, game, depth, <<>>, tick(time), polled)

\* ------------------------------------------------------------------------
\* CustomPlayer.alphabeta
\* ------------------------------------------------------------------------

RECURSIVE ab_min_value(_, _, _, _, _, _, _, _, _)
RECURSIVE ab_max_value(_, _, _, _, _, _, _, _, _)
RECURSIVE ab_min_loop(_, _, _, _, _, _, _, _, _, _, _, _)
RECURSIVE ab_max_loop(_, _, _, _, _, _, _, _, _, _, _, _)

\* ab_min_loop cutting off against beta instead of alpha
ab_min_loop_beta(self, player, game, depth, alpha, beta, node, i, value, next_move, time, log) ==
  LET moves == active_moves(game) IN
  IF i > Len(moves) THEN Return(node, value, next_move, time, log)
  ELSE LET move == moves[i]
           child == Append(node, move)
           r == ab_max_value(self, player, forecast_move(game, move),
                             depth - 1, alpha, beta, child, time,
                             Append(log, <<"forecast_move", child>>))
           better == Less(r.score, value)
           value2 == IF better THEN r.score ELSE value
           move2 == IF better THEN move ELSE next_move
       IN IF r.raised THEN r
          ELSE IF ~Less(beta, value2)
          THEN Return(node, value2, move2, r.time, r.log)
          ELSE ab_min_loop(self, player, game, depth, alpha,
                           float_min(beta, value2), node, i + 1,
                           value2, move2, r.time, r.log)

\* the for loop of min_value from its i-th move on
ab_min_loop(self, player, game, depth, alpha, beta, node, i, value, next_move, time, log) ==
  LET moves == active_moves(game) IN
  IF i > Len(moves) THEN Return(node, value, next_move, time, log)
  ELSE LET move == moves[i]
           child == Append(node, move)
           r == ab_max_value(self, player, forecast_move(game, move),
                             depth - 1, alpha, beta, child, time,
                             Append(log, <<"forecast_move", child>>))
           better == Less(r.score, value)
           value2 == IF better THEN r.score ELSE value
           move2 == IF better THEN move ELSE next_move
       IN IF r.raised THEN r
          ELSE IF ~Less(alpha, value2)
          THEN Return(node, value2, move2, r.time, r.log)
          ELSE ab_min_loop(self, player, game, depth, alpha,
                           float_min(beta, value2), node, i + 1,
                           value2, move2, r.time, r.log)

ab_min_value(self, player, game, depth, alpha, beta, node, time, log) ==
  LET polled == log \o << <<"min_value", node>>, <<"time_left", node>> >>
      listed == IF depth = 0 THEN polled ELSE get_legal_moves_call(polled, node)
  IN
  IF Expired(self, time) THEN Raise(tick(time), polled)
  ELSE IF depth = 0 \/ Len(active_moves(game)) = 0
  THEN Return(node, score(self.score, game, player), NO_MOVE, tick(time),
              Append(listed, <<"score", node>>))
  ELSE ab_min_loop(self, player, game, depth, alpha, beta, node, 1,
                   infinity, NO_MOVE, tick(time), get_legal_moves_call(listed, node))

\* the for loop of max_value from its i-th move on
ab_max_loop(self, player, game, depth, alpha, beta, node, i, value, next_move, time, log) ==
  LET moves == active_moves(game) IN
  IF i > Len(moves) THEN Return(node, value, next_move, time, log)
  ELSE LET move == moves[i]
           child == Append(node, move)
           r == ab_min_value(self, player, forecast_move(game, move),
                             depth - 1, alpha, beta, child, time,
                             Append(log, <<"forecast_move", child>>))
           better == Less(value, r.score)
           value2 == IF better THEN r.score ELSE value
           move2 == IF better THEN move ELSE next_move
       IN IF r.raised THEN r
          ELSE IF ~Less(value2, beta)
          THEN Return(node, value2, move2, r.time, r.log)
          ELSE ab_max_loop(self, player, game, depth,
                           float_max(alpha, value2), beta, node, i + 1,
                           value2, move2, r.time, r.log)

\* ab_max_value going one ply past the depth limit
ab_max_value_deeper(self, player, game, depth, alpha, beta, node, time, log) ==
  LET polled == log \o << <<"max_value", node>>, <<"time_left", node>> >>
      listed == IF depth < 0 THEN polled ELSE get_legal_moves_call(polled, node)
  IN
  IF Expired(self, time) THEN Raise(tick(time), polled)
  ELSE IF depth < 0 \/ Len(active_moves(game)) = 0
  THEN Return(node, score(self.score, game, player), NO_MOVE, tick(time),
              Append(listed, <<"score", node>>))
  ELSE ab_max_loop(self, player, game, depth, alpha, beta, node, 1,
                   neg_infinity, NO_MOVE, tick(time), get_legal_moves_call(listed, node))

ab_max_value(self, player, game, depth, alpha, beta, node, time, log) ==
  LET polled == log \o << <<"max_value", node>>, <<"time_left", node>> >>
      listed == IF depth = 0 THEN polled ELSE get_legal_moves_call(polled, node)
  IN
  IF Expired(self, time) THEN Raise(tick(time), polled)
  ELSE IF depth = 0 \/ Len(active_moves(game)) = 0
  THEN Return(node, score(self.score, game, player), NO_MOVE, tick(time),
              Append(listed, <<"score", node>>))
  ELSE ab_max_loop(self, player, game, depth, alpha, beta, node, 1,
                   neg_infinity, NO_MOVE, tick(time), get_legal_moves_call(listed, node))

\* alphabeta(game, depth) with the default alpha, beta and
\* maximizing_player=True, called when the clock reads `time`
alphabeta(self, game, depth, time) ==
  LET player == game.active
      polled == << <<"alphabeta", <<>> >>, <<"time_left", <<>> >> >>
  IN IF Expired(self, time) THEN Raise(tick(time), polled)
     ELSE ab_max_value(self, player, game, depth, neg_infinity, infinity,
                       <<>>, tick(time), polled)

\* ------------------------------------------------------------------------
\* State
\* ------------------------------------------------------------------------

VARIABLES
  game,         \* the board the harness holds
  plies,        \* moves the harness has applied to it
  self,         \* the CustomPlayer: search_depth, iterative, score, method,
                \* TIMER_THRESHOLD
  pc,           \* "idle", or the position of the running call
  legal_moves,  \* get_move's argument
  clock,        \* what the next call of time_left() reads
  depth,        \* get_move's local `depth`
  move,         \* get_move's local `move`; <<>> while unassigned
  result,       \* the move get_move returned; <<>> while it has not
  history,      \* one record per search_alg call of the running get_move
  log,          \* the logs of those calls, concatenated
  pending,      \* the outcome of the search_alg call just made
  mm,           \* outcome of a direct minimax call
  ab,           \* outcome of a direct alphabeta call
  scored        \* outcome of a direct evaluator call

vars ==
  <<game, plies, self, pc, legal_moves, clock, depth, move, result, history,
    log, pending, mm, ab, scored>>

\* def __init__(..., timeout=10.)
TIMER_THRESHOLD == 10

\* a clock reading that no search of the model exhausts
Ample == 100000

Methods == {"minimax", "alphabeta"}

\* CustomPlayer(search_depth, score_fn, iterative, method)
CustomPlayer(search_depth, score_fn, iterative, method) ==
  [search_depth |-> search_depth, iterative |-> iterative,
   score |-> score_fn, method |-> method,
   TIMER_THRESHOLD |-> TIMER_THRESHOLD]

\* the boards a game starts its search phase from: both players placed, no
\* other cell used, player 1 to move
Openings ==
  {[blocked |-> {}, loc |-> <<a, b>>, active |-> 1] :
     <<a, b>> \in {p \in Cells \X Cells : p[1] # p[2]}}

None == [raised |-> TRUE, time |-> 0, log |-> <<>>]

InitWith(agents) ==
  /\ game \in Openings
  /\ plies = 0
  /\ self \in agents
  /\ pc = "idle"
  /\ legal_moves = <<>>
  /\ clock = 0
  /\ depth = 0
  /\ move = <<>>
  /\ result = <<>>
  /\ history = <<>>
  /\ log = <<>>
  /\ pending = None
  /\ mm = None
  /\ ab = None
  /\ scored = [fn |-> "", player |-> 0, value |-> <<0, 1>>]

\* ------------------------------------------------------------------------
\* The harness
\* ------------------------------------------------------------------------

\* Board.apply_move: some player makes one of its legal moves
apply_move ==
  /\ pc = "idle"
  /\ plies < MaxPlies
  /\ \E i \in 1 .. Len(active_moves(game)) :
       game' = forecast_move(game, active_moves(game)[i])
  /\ plies' = plies + 1
  /\ UNCHANGED <<self, pc, legal_moves, clock, depth, move, result, history,
                 log, pending, mm, ab, scored>>

\* ------------------------------------------------------------------------
\* CustomPlayer.get_move
\* ------------------------------------------------------------------------

\* the method dispatch of get_move
search_alg(agent, board, d, time) ==
  IF agent.method = "minimax" THEN minimax(agent, board, d, time)
  ELSE alphabeta(agent, board, d, time)

\* while_cond bounding the iterative search by search_depth too
while_cond_capped(agent, d, mv) ==
  d <= agent.search_depth /\ mv # NO_MOVE

\* the condition of the while loop
while_cond(agent, d, mv) ==
  agent.iterative \/ (d <= agent.search_depth /\ mv # NO_MOVE)

\* initial_move taking the last move of the list
initial_move_last(moves) == moves[Len(moves)]

\* `move = legal_moves[0]`
initial_move(moves) == moves[1]

\* get_move_begin choosing the search method before it looks at the list
get_move_begin_dispatch_first(moves, time) ==
  /\ pc = "idle"
  /\ legal_moves' = moves
  /\ clock' = time
  /\ history' = <<>>
  /\ log' = <<>>
  /\ IF self.method \notin Methods
     THEN /\ pc' = "raised"
          /\ result' = <<>>
          /\ UNCHANGED <<move, depth>>
     ELSE IF Len(moves) = 0
     THEN /\ pc' = "returned"
          /\ result' = NO_MOVE
          /\ UNCHANGED <<move, depth>>
     ELSE /\ pc' = "loop"
          /\ move' = initial_move(moves)
          /\ result' = <<>>
          /\ depth' = IF self.iterative THEN 0 ELSE self.search_depth
  /\ UNCHANGED <<game, plies, self, pending, mm, ab, scored>>

\* get_move_begin with `except Exception` for `except Timeout`: the error of
\* the method dispatch is swallowed and the initial move is returned
get_move_begin_except_all(moves, time) ==
  /\ pc = "idle"
  /\ legal_moves' = moves
  /\ clock' = time
  /\ history' = <<>>
  /\ log' = <<>>
  /\ IF Len(moves) = 0
     THEN /\ pc' = "returned"
          /\ result' = NO_MOVE
          /\ UNCHANGED <<move, depth>>
     ELSE /\ move' = initial_move(moves)
          /\ result' = <<>>
          /\ IF self.method \notin Methods
             THEN /\ pc' = "except"
                  /\ UNCHANGED depth
             ELSE /\ pc' = "loop"
                  /\ depth' = IF self.iterative THEN 0 ELSE self.search_depth
  /\ UNCHANGED <<game, plies, self, pending, mm, ab, scored>>

\* get_move up to its while loop, called with `moves` and a clock reading
\* `time`
get_move_begin(moves, time) ==
  /\ pc = "idle"
  /\ legal_moves' = moves
  /\ clock' = time
  /\ history' = <<>>
  /\ log' = <<>>
  /\ IF Len(moves) = 0
     THEN /\ pc' = "returned"
          /\ result' = NO_MOVE
          /\ UNCHANGED <<move, depth>>
     ELSE /\ move' = initial_move(moves)
          /\ result' = <<>>
          /\ IF self.method \notin Methods
             THEN /\ pc' = "raised"
                  /\ UNCHANGED depth
             ELSE /\ pc' = "loop"
                  /\ depth' = IF self.iterative THEN 0 ELSE self.search_depth
  /\ UNCHANGED <<game, plies, self, pending, mm, ab, scored>>

get_move ==
  \E time \in (TIMER_THRESHOLD - 1) .. (TIMER_THRESHOLD + MaxTicks) :
    \E moves \in {active_moves(game), <<>>} :
      get_move_begin(moves, time)

\* line 468, the call: the search at `depth` runs under the clock
search_call ==
  /\ pc = "loop"
  /\ while_cond(self, depth, move)
  /\ pending' = search_alg(self, game, depth, clock)
  /\ pc' = "called"
  /\ UNCHANGED <<game, plies, self, legal_moves, clock, depth, move, result,
                 history, log, mm, ab, scored>>

\* search_done with the try/except inside the while loop: a Timeout is
\* swallowed and the loop goes on
search_done_retry ==
  /\ pc = "called"
  /\ clock' = pending.time
  /\ IF pending.raised
     THEN /\ pc' = "loop"
          /\ UNCHANGED <<move, depth, log, history>>
     ELSE /\ pc' = "loop"
          /\ move' = pending.move
          /\ depth' = depth + 1
          /\ log' = log \o pending.log
          /\ history' = Append(history, [depth |-> depth, raised |-> FALSE])
  /\ UNCHANGED <<game, plies, self, legal_moves, result, pending, mm, ab,
                 scored>>

\* lines 468-473, the outcome of the call: either `_, move = ...` and
\* `depth += 1`, or the except clause
search_done ==
  /\ pc = "called"
  /\ clock' = pending.time
  /\ log' = log \o pending.log
  /\ history' = Append(history, [depth |-> depth, raised |-> pending.raised])
  /\ IF pending.raised
     THEN /\ pc' = "except"
          /\ UNCHANGED <<move, depth>>
     ELSE /\ pc' = "loop"
          /\ move' = pending.move
          /\ depth' = depth + 1
  /\ UNCHANGED <<game, plies, self, legal_moves, result, pending, mm, ab,
                 scored>>

\* `return move`, after the loop or after the except clause
get_move_return ==
  /\ \/ pc = "except"
     \/ pc = "loop" /\ ~while_cond(self, depth, move)
  /\ pc' = "returned"
  /\ result' = move
  /\ UNCHANGED <<game, plies, self, legal_moves, clock, depth, move, history,
                 log, pending, mm, ab, scored>>

\* def __init__(self, search_depth=3, ...)
DefaultDepth == 3

\* the agents of the model: iterative ones with the default search_depth
\* and with one that their deepening passes, fixed-depth ones with 1..MaxDepth
Agents ==
  {CustomPlayer(d, fn, TRUE, m) :
     d \in {1, DefaultDepth},
     fn \in {"custom_score", "custom_score_basic"},
     m \in Methods \cup {"other"}}
  \cup
  {CustomPlayer(d, fn, FALSE, m) :
     d \in 1 .. MaxDepth, fn \in {"custom_score", "custom_score_basic"},
     m \in Methods \cup {"other"}}

Init == InitWith(Agents)

Next ==
  apply_move \/ get_move \/ search_call \/ search_done \/ get_move_return

Spec == Init /\ [][Next]_vars

\* a call of get_move is in progress: exactly then one of search_call,
\* search_done and get_move_return is enabled, and each changes the state
Running == pc \in {"loop", "called", "except"}

\* The agent is sequential code: once called it keeps taking steps.  This is
\* WF_vars(search_call \/ search_done \/ get_move_return) with ENABLED
\* written out as Running.
FairSpec ==
  /\ Spec
  /\ \/ []<>(~Running)
     \/ []<><<search_call \/ search_done \/ get_move_return>>_vars

\* ------------------------------------------------------------------------
\* Direct calls of the searches and of the evaluators
\* ------------------------------------------------------------------------

\* minimax(game, d) under a clock that does not run out
call_minimax ==
  /\ pc = "idle"
  /\ \E d \in 0 .. MaxDepth :
       /\ depth' = d
       /\ mm' = minimax(self, game, d, Ample)
  /\ pc' = "minimax"
  /\ UNCHANGED <<game, plies, self, legal_moves, clock, move, result, history,
                 log, pending, ab, scored>>

\* alphabeta(game, d) on the same state, depth and clock
call_alphabeta ==
  /\ pc = "minimax"
  /\ ab' = alphabeta(self, game, depth, Ample)
  /\ pc' = "searched"
  /\ UNCHANGED <<game, plies, self, legal_moves, clock, depth, move, result,
                 history, log, pending, mm, scored>>

\* score_fn(game, player) for an evaluator of the file
call_score ==
  /\ pc = "idle"
  /\ \E fn \in ScoreFns, player \in Players :
       scored' = [fn |-> fn, player |-> player,
                  value |-> score(fn, game, player)]
  /\ pc' = "scored"
  /\ UNCHANGED <<game, plies, self, legal_moves, clock, depth, move, result,
                 history, log, pending, mm, ab>>

SearchAgents ==
  {CustomPlayer(MaxDepth, fn, FALSE, "minimax") : fn \in ScoreFns}

InitSearch == InitWith(SearchAgents)

NextSearch == apply_move \/ call_minimax \/ call_alphabeta \/ call_score

SpecSearch == InitSearch /\ [][NextSearch]_vars

\* ------------------------------------------------------------------------
\* Properties of get_move
\* ------------------------------------------------------------------------

Range(seq) == {seq[i] : i \in DOMAIN seq}

\* number of clock polls in a log
Polls(l) == Cardinality({i \in DOMAIN l : l[i][1] = "time_left"})

\* what the clock read when the running get_move was called
FirstReading == clock + Polls(log)

\* get_move was called with a non-empty move list on a supported method
Searching == pc # "idle" /\ Len(legal_moves) > 0 /\ self.method \in Methods

\* C1: get_move with a non-empty legal_moves list and a supported method
\* returns a legal move of the root state, never (-1, -1), whenever the
\* clock runs out.
C1_ReturnsLegalMove ==
  (Searching /\ pc = "returned") =>
    (result \in Range(active_moves(game)) /\ result # NO_MOVE)

\* C2: called with a non-empty legal_moves list and a clock that already
\* reads below TIMER_THRESHOLD at the first poll, get_move raises nothing
\* and returns exactly legal_moves[0], which is not (-1, -1).
C2_ExpiredClockReturnsFirstMove ==
  (Searching /\ FirstReading < TIMER_THRESHOLD) =>
    /\ pc # "raised"
    /\ pc = "returned" => (result = legal_moves[1] /\ result # NO_MOVE)

C2_Witness ==
  /\ Searching
  /\ FirstReading < TIMER_THRESHOLD
  /\ pc = "returned"
  /\ Len(legal_moves) > 1
  /\ result = legal_moves[1]
  /\ Len(history) = 1
  /\ history[1].raised

\* C9: get_move called with an empty legal_moves list returns (-1, -1) at
\* once, for any state, agent and clock: no search is started, the clock is
\* not polled, no evaluator is called and no state is forecast.
C9_EmptyMovesReturnNoMove ==
  (pc # "idle" /\ Len(legal_moves) = 0) =>
    /\ pc = "returned"
    /\ result = NO_MOVE
    /\ history = <<>>
    /\ log = <<>>

C9_Witness ==
  /\ pc = "returned"
  /\ Len(legal_moves) = 0
  /\ Len(active_moves(game)) > 0
  /\ result = NO_MOVE
  /\ clock >= TIMER_THRESHOLD

\* the move a search of the running agent returns at depth d when the clock
\* does not interfere
CompletedMove(d) == search_alg(self, game, d, Ample).move

\* C3: when a Timeout ends the search at some depth, it does not reach the
\* caller, and get_move returns the move of the last search that completed
\* before (legal_moves[0] if none did): the aborted depth changes nothing.
C3_TimeoutKeepsLastCompleted ==
  /\ Searching => pc # "raised"
  /\ (Searching /\ Len(history) > 0 /\ history[Len(history)].raised) =>
       LET k == Len(history) - 1
           kept == IF k = 0 THEN legal_moves[1]
                   ELSE CompletedMove(history[k].depth)
       IN /\ pc \in {"except", "returned"}
          /\ move = kept
          /\ pc = "returned" => result = kept

C3_Witness ==
  /\ Searching
  /\ pc = "returned"
  /\ Len(history) = 3
  /\ history[3].raised
  /\ Polls(log) > 5
  /\ result # legal_moves[1]
  /\ result # NO_MOVE

\* C4: every call of get_move returns, in iterative and in fixed-depth mode,
\* given that the clock goes down with every poll.
C4_GetMoveReturns == (pc = "loop") ~> (pc = "returned")

\* a call that returned after completing a search deeper than what is left
\* of the game
C4_Witness ==
  /\ Searching
  /\ pc = "returned"
  /\ \E i \in DOMAIN history :
       /\ ~history[i].raised
       /\ history[i].depth >= 2
       /\ \A j \in DOMAIN log : Len(log[j][2]) < history[i].depth

\* ------------------------------------------------------------------------
\* Properties of the searches and of the evaluators
\* ------------------------------------------------------------------------

\* both direct calls were made, on `game` at `depth`
Searched == pc = "searched"

RECURSIVE StateAt(_, _)
\* the state at a node: the node's moves forecast one after the other
StateAt(board, node) ==
  IF Len(node) = 0 THEN board
  ELSE StateAt(forecast_move(board, Head(node)), Tail(node))

\* a greatest / a least value of a non-empty set of floats
Greatest(vals) == CHOOSE v \in vals : \A w \in vals : ~Less(v, w)

Least(vals) == CHOOSE v \in vals : \A w \in vals : ~Less(w, v)

RECURSIVE MinimaxValue(_, _, _, _, _)
\* the depth-limited minimax value of `board` for `player`, by definition
MinimaxValue(fn, player, board, d, maximizing) ==
  LET moves == active_moves(board)
      below == {MinimaxValue(fn, player, forecast_move(board, moves[i]),
                             d - 1, ~maximizing) : i \in DOMAIN moves}
  IN IF d = 0 \/ Len(moves) = 0 THEN score(fn, board, player)
     ELSE IF maximizing THEN Greatest(below) ELSE Least(below)

\* the helper invocations of a log: <<"max_value" | "min_value", node>>
Visited(l) ==
  {l[i] : i \in {j \in DOMAIN l : l[j][1] \in {"max_value", "min_value"}}}

\* C5: when both complete, alphabeta(state, depth) with the default window
\* returns the same value and the same move as minimax(state, depth).
C5_AlphabetaEqualsMinimax ==
  Searched =>
    /\ ~mm.raised /\ ~ab.raised
    /\ SameValue(ab.score, mm.score)
    /\ ab.move = mm.move

\* a search in which alphabeta pruned and still chose a move among ties
C5_Witness ==
  /\ Searched
  /\ depth = 2
  /\ Visited(ab.log) # Visited(mm.log)
  /\ ab.move = mm.move
  /\ mm.move # NO_MOVE
  /\ mm.move # active_moves(game)[1]
  /\ IsFinite(mm.score)

\* C6: minimax(state, depth) with depth >= 1 on a state with a legal move
\* returns the depth-limited minimax value of the state and the first legal
\* move whose successor attains it, hence a legal move and not (-1, -1).
C6_MinimaxReturnsFirstBestMove ==
  (pc \in {"minimax", "searched"} /\ depth >= 1
     /\ Len(active_moves(game)) > 0) =>
    LET moves == active_moves(game)
        best == MinimaxValue(self.score, game.active, game, depth, TRUE)
        below(i) == MinimaxValue(self.score, game.active,
                                 forecast_move(game, moves[i]), depth - 1,
                                 FALSE)
        first == CHOOSE i \in DOMAIN moves :
                   /\ SameValue(below(i), best)
                   /\ \A j \in 1 .. i - 1 : ~SameValue(below(j), best)
    IN /\ ~mm.raised
       /\ SameValue(mm.score, best)
       /\ mm.move = moves[first]
       /\ mm.move # NO_MOVE

\* the base-case invocations of a search at depth d on `board`: the nodes
\* entered with no depth left or with no move for the player to move
BaseNodes(board, d, l) ==
  {v[2] : v \in {w \in Visited(l) :
                   \/ Len(w[2]) = d
                   \/ Len(active_moves(StateAt(board, w[2]))) = 0}}

\* in log l of a search of `board` at depth d, every base-case node returns
\* once, with (score(node state, player to move on `board`), (-1, -1)), and
\* no child of it is forecast
BaseCaseIn(board, fn, d, l) ==
  \A node \in BaseNodes(board, d, l) :
    /\ \E i \in DOMAIN l :
         l[i] = <<"return", node,
                  score(fn, StateAt(board, node), board.active), NO_MOVE>>
    /\ \A i \in DOMAIN l :
         (l[i][1] = "return" /\ l[i][2] = node) =>
           l[i] = <<"return", node,
                    score(fn, StateAt(board, node), board.active), NO_MOVE>>
    /\ \A i \in DOMAIN l :
         l[i][1] = "forecast_move" =>
           ~(Len(l[i][2]) = Len(node) + 1
               /\ SubSeq(l[i][2], 1, Len(node)) = node)

\* C7: in minimax and in alphabeta a node entered with depth 0, or whose
\* mover has no legal move, returns (score(node state, root player),
\* (-1, -1)) without forecasting a child; the root player is the active
\* player of the state the search was called on, at every ply.  In
\* particular minimax(state, 0) returns (score(state, active player),
\* (-1, -1)).
C7_BaseCaseScoresForRootPlayer ==
  Searched =>
    /\ BaseCaseIn(game, self.score, depth, mm.log)
    /\ BaseCaseIn(game, self.score, depth, ab.log)
    /\ depth = 0 =>
         /\ mm.score = score(self.score, game, game.active)
         /\ mm.move = NO_MOVE

\* a search with a leaf at which the opponent is to move and a node that
\* is a dead end before the depth runs out
C7_Witness ==
  /\ Searched
  /\ depth = 2
  /\ \E node \in BaseNodes(game, depth, mm.log) : Len(node) = 1
  /\ \E node \in BaseNodes(game, depth, ab.log) :
       /\ Len(node) = 2
       /\ IsFinite(score(self.score, StateAt(game, node), game.active))
       /\ ~SameValue(score(self.score, StateAt(game, node), game.active),
                     score(self.score, StateAt(game, node),
                           get_opponent(game.active)))

\* C8: the nodes on which alphabeta invokes max_value / min_value are among
\* those on which minimax does at the same depth.
C8_AlphabetaVisitsSubset ==
  Searched => Visited(ab.log) \subseteq Visited(mm.log)

C8_Witness ==
  /\ Searched
  /\ depth = 2
  /\ Visited(ab.log) # Visited(mm.log)
  /\ Cardinality(Visited(ab.log)) > 3

\* C10: every evaluator returns -infinity exactly when the player is a
\* loser, +infinity exactly when the player is a winner, and a finite
\* number otherwise.
C10_InfiniteOnlyAtTerminal ==
  pc = "scored" =>
    /\ scored.value = neg_infinity <=> is_loser(game, scored.player)
    /\ scored.value = infinity <=> is_winner(game, scored.player)
    /\ (~is_loser(game, scored.player) /\ ~is_winner(game, scored.player))
         => IsFinite(scored.value)

\* ------------------------------------------------------------------------
\* The method dispatch and the order of the searches
\* ------------------------------------------------------------------------

\* get_move was called on an agent whose method is not a search of the class
Unsupported == pc # "idle" /\ self.method \notin Methods

\* the call ended in the Exception of line 457: nothing was searched, nothing
\* was returned, and no step of get_move follows
Fatal ==
  /\ pc = "raised"
  /\ result = <<>>
  /\ history = <<>>
  /\ log = <<>>

\* C11 as stated: whenever get_move is called on an agent whose method is
\* neither 'minimax' nor 'alphabeta', for any state, any legal_moves list
\* and any clock value, the call ends in a fatal error which get_move does
\* not swallow, and no move is returned.
C11_UnsupportedMethodAlwaysRaises == Unsupported => Fatal

\* C11, amended: on an agent whose method is neither 'minimax' nor
\* 'alphabeta', get_move called with a NON-EMPTY legal_moves list ends, for
\* any state and any clock value, in a fatal error that is not swallowed,
\* and no move is returned; called with an empty list it returns (-1, -1)
\* before it looks at the method.
C11_UnsupportedMethodRaises ==
  Unsupported =>
    IF Len(legal_moves) > 0 THEN Fatal
    ELSE pc = "returned" /\ result = NO_MOVE

\* an unsupported method met with legal moves and a clock that had already
\* run out: the Timeout fallback does not apply
C11_Witness ==
  /\ Unsupported
  /\ Len(legal_moves) > 0
  /\ clock < TIMER_THRESHOLD
  /\ pc = "raised"

\* the depths of the searches the running get_move has made, in order
Depths == [i \in DOMAIN history |-> history[i].depth]

\* number of top-level entries of a search in a log
Calls(l) == Cardinality({i \in DOMAIN l : l[i][1] \in Methods})

\* C12: within one get_move call with non-empty legal_moves (on a method the
\* class has), the depths at which the search is invoked are, in iterative
\* mode, 0, 1, 2, ... in consecutive order, each started only after the one
\* before completed, going on whatever search_depth is until a Timeout,
\* after which no search is started and the aborted depth is not resumed;
\* in non-iterative mode exactly one search, at depth search_depth.
C12_DepthSequence ==
  Searching =>
    \* every search but the last one completed; a Timeout is the last
    /\ \A i \in 1 .. Len(history) - 1 : ~history[i].raised
    /\ Calls(log) = Len(history)
    /\ pc \in {"loop", "called"} =>
         \A i \in DOMAIN history : ~history[i].raised
    /\ pc = "except" => Len(history) > 0 /\ history[Len(history)].raised
    /\ IF self.iterative
       THEN /\ Depths = [i \in DOMAIN history |-> i - 1]
            /\ pc \in {"loop", "called"} => depth = Len(history)
            \* only a Timeout ends the deepening
            /\ pc = "loop" => while_cond(self, depth, move)
            /\ pc = "returned" =>
                 Len(history) > 0 /\ history[Len(history)].raised
       ELSE /\ Len(history) <= 1
            /\ \A i \in DOMAIN history : Depths[i] = self.search_depth
            /\ pc = "loop" =>
                 while_cond(self, depth, move) <=> history = <<>>
            /\ pc \in {"except", "returned"} => Len(history) = 1

\* an iterative get_move that completed depths 0 and 1, went past its
\* search_depth and returned after the Timeout of a deeper search
C12_Witness ==
  /\ Searching
  /\ self.iterative
  /\ pc = "returned"
  /\ Len(history) >= 3
  /\ history[Len(history)].depth > self.search_depth
  /\ history[Len(history)].raised

\* ------------------------------------------------------------------------
\* The clock polls of a search
\* ------------------------------------------------------------------------

RECURSIVE Ticked(_, _)
\* the clock after n polls
Ticked(time, n) == IF n = 0 THEN time ELSE Ticked(tick(time), n - 1)

\* what the poll at position i of log l read, in a search called at `time`
ReadingAt(time, l, i) == Ticked(time, Polls(SubSeq(l, 1, i - 1)))

IsPrefix(a, b) == Len(a) <= Len(b) /\ SubSeq(b, 1, Len(a)) = a

Parent(node) == SubSeq(node, 1, Len(node) - 1)

Entries == {"max_value", "min_value"}

\* position j of l is the poll made on entry of the helper at `node`
EntryPoll(l, j, node) ==
  /\ j > 1
  /\ l[j] = <<"time_left", node>>
  /\ l[j - 1][1] \in Entries
  /\ l[j - 1][2] = node

\* log l starts with the poll of the top-level call; every helper polls
\* first thing, and nothing else polls; a helper evaluates, lists the moves
\* and forecasts a child only after its poll
PollsAtEntry(method, l) ==
  /\ Len(l) >= 2
  /\ l[1] = <<method, <<>> >>
  /\ l[2] = <<"time_left", <<>> >>
  /\ \A i \in DOMAIN l :
       /\ l[i][1] \in Entries =>
            i < Len(l) /\ l[i + 1] = <<"time_left", l[i][2]>>
       /\ l[i][1] = "time_left" /\ i # 2 => EntryPoll(l, i, l[i][2])
       /\ l[i][1] \in {"score", "get_legal_moves"} =>
            \E j \in 1 .. i - 1 : EntryPoll(l, j, l[i][2])
       /\ l[i][1] = "forecast_move" =>
            \E j \in 1 .. i - 1 : EntryPoll(l, j, Parent(l[i][2]))

\* outcome r of a search called at `time`: the first reading below the
\* threshold is the last event of the search, which then raised and gave
\* no pair back, from the polling frame or from a frame around it; a
\* search with no such reading returned the pair of its root
AbandonedAtOnce(time, threshold, r) ==
  LET l == r.log
      last == Len(l)
  IN /\ \A i \in DOMAIN l :
          l[i][1] = "time_left" =>
            (ReadingAt(time, l, i) < threshold <=> r.raised /\ i = last)
     /\ r.raised =>
          /\ l[last][1] = "time_left"
          /\ DOMAIN r = {"raised", "time", "log"}
          /\ \A i \in DOMAIN l :
               l[i][1] = "return" => ~IsPrefix(l[i][2], l[last][2])
     /\ ~r.raised => l[last] = <<"return", <<>>, r.score, r.move>>

\* C13: in minimax and in alphabeta the clock is read once at the top-level
\* call and once on entry of every max_value / min_value invocation, before
\* that node evaluates, lists moves or forecasts a child; as soon as one
\* reading is strictly below TIMER_THRESHOLD the search is abandoned with
\* Timeout: no evaluation, forecast or poll follows in that search, and no
\* (value, move) pair comes back from any frame around the poll.
C13_PollThenAbandon ==
  pc = "called" =>
    /\ PollsAtEntry(self.method, pending.log)
    /\ AbandonedAtOnce(clock, self.TIMER_THRESHOLD, pending)

\* an alphabeta search whose clock ran out at a poll below the root, after
\* another branch had been evaluated and had returned
C13_Witness ==
  /\ pc = "called"
  /\ self.method = "alphabeta"
  /\ pending.raised
  /\ Len(pending.log[Len(pending.log)][2]) >= 1
  /\ \E i \in DOMAIN pending.log : pending.log[i][1] = "score"
  /\ \E i \in DOMAIN pending.log : pending.log[i][1] = "return"

====
